---- MODULE Spec2Model ----
(***************************************************************************)
(* Care AI chat client: the connection manager and the doctor-summary      *)
(* fetcher of the two variants of the component,                           *)
(*   src/unnamed/part_000  (the retrying, reconnecting variant)  and       *)
(*   src/src/App.vue       (the baseline variant).                         *)
(*                                                                         *)
(* JavaScript values are modelled as follows.  Strings are TLA+ strings;   *)
(* `undefined` and `null` in a string-valued slot are the sentinels        *)
(* Undefined and Null.  The text typed into the input box is a sequence of *)
(* one-character strings so that String.prototype.trim can be computed.    *)
(* Parsed JSON documents are records carrying a `json` tag.  Raw wire data *)
(* (frames, response bodies) are strings, parsed by JSONparse.             *)
(* Date.now() timestamps and the scrollToBottom display effect are not     *)
(* part of the model.                                                      *)
(***************************************************************************)
EXTENDS Integers, Sequences, FiniteSets, TLC

VARIABLES
  variant,               \* which source file the component instance runs
  mounted,               \* "init" | "mounted" | "unmounted"
  userInput,             \* ref userInput
  chatMessages,          \* ref chatMessages (the transcript)
  doctorSummary,         \* ref doctorSummary
  doctorSummaryLoading,  \* ref doctorSummaryLoading
  doctorSummaryError,    \* ref doctorSummaryError
  socket,                \* let socket: 0 is null, otherwise a transport id
  connectionStatus,      \* ref connectionStatus
  isConnected,           \* ref isConnected
  ws,                    \* the WebSocket objects created so far
  requests,              \* summary requests in flight (await fetch)
  parsing,               \* responses whose body is being read (await json)
  timers,                \* pending setTimeout continuations
  thrown,                \* exceptions that escaped a handler
  chains,                \* history: one record per fetchDoctorSummary() chain
  delivered,             \* history: frames handed to onmessage
  sends,                 \* history: number of sendMessage() calls
  notReady               \* history: number of "not ready" responses served

vars == <<variant, mounted, userInput, chatMessages, doctorSummary,
          doctorSummaryLoading, doctorSummaryError, socket, connectionStatus,
          isConnected, ws, requests, parsing, timers, thrown, chains,
          delivered, sends, notReady>>

-----------------------------------------------------------------------------
(* Bounds of the model *)

MaxSockets == 3
MaxFrames == 2
MaxSends == 2
MaxFetches == 2
MaxNotReady == 4
MaxTranscript == 5

-----------------------------------------------------------------------------
(* Program and platform constants *)

MAX_SUMMARY_RETRIES == 3
SUMMARY_RETRY_DELAY == 3000

CONNECTING == 0
OPEN == 1
CLOSING == 2
CLOSED == 3

ABNORMAL_CLOSURE == 1006

Undefined == "<undefined>"
Null == "<null>"
NullValue == [json |-> "null"]

userId == "vue_user_1a2b3c"

PART == "part_000"
APP == "App.vue"

-----------------------------------------------------------------------------
(* JavaScript primitives *)

\* Truthiness of a string-valued slot.
Truthy(v) == v \notin {Undefined, Null, ""}

\* v ?? d
OrElse_nullish(v, d) == IF v \in {Undefined, Null} THEN d ELSE v

\* v || d
OrElse(v, d) == IF Truthy(v) THEN v ELSE d

\* Conversion of a string-valued slot inside a template literal.
Str(v) == IF v = Undefined THEN "undefined" ELSE IF v = Null THEN "null" ELSE v

Digit(d) ==
  CASE d = 0 -> "0" [] d = 1 -> "1" [] d = 2 -> "2" [] d = 3 -> "3"
    [] d = 4 -> "4" [] d = 5 -> "5" [] d = 6 -> "6" [] d = 7 -> "7"
    [] d = 8 -> "8" [] d = 9 -> "9"

\* Conversion of a non-negative integer inside a template literal.
RECURSIVE NumStr(_)
NumStr(n) == IF n < 10 THEN Digit(n) ELSE NumStr(n \div 10) \o Digit(n % 10)

\* The WhiteSpace and LineTerminator code points that String.prototype.trim
\* strips.  A character is a one-character string; the code points from
\* U+2000 on, which a string of this notation cannot hold, are written by
\* their names.
IsSpace(c) ==
  c \in {"\t", "\n", "", "\f", "\r", " ", " ", " ", "﻿",
         "U+2000", "U+2001", "U+2002", "U+2003", "U+2004", "U+2005", "U+2006",
         "U+2007", "U+2008", "U+2009", "U+200A", "U+2028", "U+2029", "U+202F",
         "U+205F", "U+3000"}

\* String.prototype.trim on a sequence of characters.
RECURSIVE TrimLeft(_)
TrimLeft(s) == IF s # <<>> /\ IsSpace(Head(s)) THEN TrimLeft(Tail(s)) ELSE s

RECURSIVE TrimRight(_)
TrimRight(s) ==
  IF s # <<>> /\ IsSpace(s[Len(s)]) THEN TrimRight(SubSeq(s, 1, Len(s) - 1)) ELSE s

trim(s) == TrimRight(TrimLeft(s))

-----------------------------------------------------------------------------
(* Wire data and JSON.parse *)

\* A parsed JSON object: every property the component reads, absent ones
\* reading as undefined.  `raw` identifies the document.
Absent == [json |-> "undefined"]

JSObject(raw) ==
  [json |-> "object", raw |-> raw, type |-> Undefined, payload |-> Absent,
   text |-> Undefined, message |-> Undefined, userId |-> Undefined,
   error |-> Undefined, usage |-> Undefined]

\* Inbound frames (event.data)
F_AI_HI == "{\"type\":\"ai_response\",\"payload\":{\"text\":\"hi\"}}"
F_AI_USAGE ==
  "{\"type\":\"ai_response\",\"payload\":{\"text\":\"\",\"usage\":{\"total_tokens\":12}}}"
F_AI_BARE == "{\"type\":\"ai_response\"}"
F_AI_EMPTY == "{\"type\":\"ai_response\",\"payload\":{}}"
F_SYSTEM == "{\"type\":\"system_message\",\"text\":\"Welcome\"}"
F_ERROR == "{\"type\":\"error\",\"message\":\"boom\"}"
F_READY == "{\"type\":\"summary_ready\",\"userId\":\"vue_user_1a2b3c\"}"
F_READY_OTHER == "{\"type\":\"summary_ready\",\"userId\":\"vue_user_ffffff\"}"
F_PING == "{\"type\":\"ping\"}"
F_NULL == "null"
F_GARBAGE == "<html>"

\* Response bodies
B_NOT_READY == "{\"message\":\"Doctor summary not yet available.\"}"
B_NOT_FOUND == "{\"message\":\"Not Found\"}"
B_EMPTY == "{}"
B_SUMMARY == "{\"summary\":\"stable\"}"
B_ERROR == "{\"error\":\"generation failed\"}"
B_ERROR_EMPTY == "{\"summary\":\"stable\",\"error\":\"\"}"

\* The texts of the model that are not JSON.
NotJSON == {"", F_GARBAGE}

\* The message of the SyntaxError that JSON.parse throws on them.
SyntaxErrorMessage(raw) ==
  CASE raw = "" -> "Unexpected end of JSON input"
    [] raw = F_GARBAGE -> "Unexpected token '<', \"<html>\" is not valid JSON"

\* JSON.parse: the parsed value, or a SyntaxError.  The function is defined
\* on the texts listed and on no other.
JSONparse(raw) ==
  CASE raw = F_AI_HI ->
         [threw |-> FALSE,
          value |-> [JSObject(raw) EXCEPT !.type = "ai_response",
                       !.payload = [JSObject("{\"text\":\"hi\"}") EXCEPT !.text = "hi"]]]
    [] raw = F_AI_USAGE ->
         [threw |-> FALSE,
          value |-> [JSObject(raw) EXCEPT !.type = "ai_response",
                       !.payload = [JSObject("{\"text\":\"\",\"usage\":{\"total_tokens\":12}}")
                                      EXCEPT !.text = "", !.usage = "{\"total_tokens\":12}"]]]
    [] raw = F_AI_EMPTY ->
         [threw |-> FALSE,
          value |-> [JSObject(raw) EXCEPT !.type = "ai_response",
                       !.payload = JSObject("{}")]]
    [] raw = F_AI_BARE ->
         [threw |-> FALSE, value |-> [JSObject(raw) EXCEPT !.type = "ai_response"]]
    [] raw = F_SYSTEM ->
         [threw |-> FALSE,
          value |-> [JSObject(raw) EXCEPT !.type = "system_message", !.text = "Welcome"]]
    [] raw = F_ERROR ->
         [threw |-> FALSE,
          value |-> [JSObject(raw) EXCEPT !.type = "error", !.message = "boom"]]
    [] raw = F_READY ->
         [threw |-> FALSE,
          value |-> [JSObject(raw) EXCEPT !.type = "summary_ready",
                                          !.userId = "vue_user_1a2b3c"]]
    [] raw = F_READY_OTHER ->
         [threw |-> FALSE,
          value |-> [JSObject(raw) EXCEPT !.type = "summary_ready",
                                          !.userId = "vue_user_ffffff"]]
    [] raw = F_PING ->
         [threw |-> FALSE, value |-> [JSObject(raw) EXCEPT !.type = "ping"]]
    [] raw = B_NOT_READY ->
         [threw |-> FALSE,
          value |-> [JSObject(raw) EXCEPT !.message = "Doctor summary not yet available."]]
    [] raw = B_NOT_FOUND ->
         [threw |-> FALSE, value |-> [JSObject(raw) EXCEPT !.message = "Not Found"]]
    [] raw = B_EMPTY -> [threw |-> FALSE, value |-> JSObject(raw)]
    [] raw = B_SUMMARY -> [threw |-> FALSE, value |-> JSObject(raw)]
    [] raw = B_ERROR ->
         [threw |-> FALSE, value |-> [JSObject(raw) EXCEPT !.error = "generation failed"]]
    [] raw = B_ERROR_EMPTY ->
         [threw |-> FALSE, value |-> [JSObject(raw) EXCEPT !.error = ""]]
    [] raw = F_NULL -> [threw |-> FALSE, value |-> NullValue]
    [] raw = "42" ->
         [threw |-> FALSE, value |-> [JSObject(raw) EXCEPT !.json = "number"]]
    [] raw = "true" ->
         [threw |-> FALSE, value |-> [JSObject(raw) EXCEPT !.json = "boolean"]]
    [] raw = "[]" ->
         [threw |-> FALSE, value |-> [JSObject(raw) EXCEPT !.json = "array"]]
    [] raw = "{\"type\":\"ping\",\"x\":1}" ->
         [threw |-> FALSE, value |-> [JSObject(raw) EXCEPT !.type = "ping"]]
    [] raw = "{ \"type\": \"ping\" }" ->
         [threw |-> FALSE, value |-> [JSObject(raw) EXCEPT !.type = "ping"]]
    [] raw = "{\"message\":\"Other\"}" ->
         [threw |-> FALSE, value |-> [JSObject(raw) EXCEPT !.message = "Other"]]
    [] raw \in NotJSON -> [threw |-> TRUE, value |-> NullValue]

\* HTTP responses of the summary endpoint; `network` is a rejected fetch().
Response(status, statusText, body) ==
  [network |-> FALSE, status |-> status, statusText |-> statusText, body |-> body]

NetworkFailure == [network |-> TRUE, status |-> 0, statusText |-> "", body |-> ""]

\* Response.ok
ok(response) == response.status >= 200 /\ response.status <= 299

R_NOT_READY == Response(404, "Not Found", B_NOT_READY)
R_SUMMARY == Response(200, "OK", B_SUMMARY)
R_ERROR_BODY == Response(200, "OK", B_ERROR)

-----------------------------------------------------------------------------
(* Transcript entries *)

\* SystemEntry with the severity left at its default.
SystemEntry_info(text, type) ==
  [sender |-> "system", text |-> text, type |-> "info", usage |-> Undefined]

SystemEntry(text, type) ==
  [sender |-> "system", text |-> text, type |-> type, usage |-> Undefined]

AiEntry(text, usage) ==
  [sender |-> "ai", text |-> text, type |-> Undefined, usage |-> usage]

UserEntry(text) ==
  [sender |-> "user", text |-> text, type |-> Undefined, usage |-> Undefined]

-----------------------------------------------------------------------------
(* Component state as one record, so that handlers compose *)

Cur(op) ==
  [userInput |-> userInput, chatMessages |-> chatMessages,
   doctorSummary |-> doctorSummary,
   doctorSummaryLoading |-> doctorSummaryLoading,
   doctorSummaryError |-> doctorSummaryError, socket |-> socket,
   connectionStatus |-> connectionStatus, isConnected |-> isConnected,
   ws |-> ws, requests |-> requests, parsing |-> parsing, timers |-> timers,
   thrown |-> thrown,
   chains |-> chains, op |-> op]

Commit(s) ==
  /\ userInput' = s.userInput
  /\ chatMessages' = s.chatMessages
  /\ doctorSummary' = s.doctorSummary
  /\ doctorSummaryLoading' = s.doctorSummaryLoading
  /\ doctorSummaryError' = s.doctorSummaryError
  /\ socket' = s.socket
  /\ connectionStatus' = s.connectionStatus
  /\ isConnected' = s.isConnected
  /\ ws' = s.ws
  /\ requests' = s.requests
  /\ parsing' = s.parsing
  /\ timers' = s.timers
  /\ thrown' = s.thrown
  /\ chains' = s.chains

\* new WebSocket(url) with the four handlers assigned
NewWebSocket ==
  [readyState |-> CONNECTING,
   handlers |-> {"onopen", "onmessage", "onerror", "onclose"},
   sent |-> <<>>, dropped |-> <<>>]

\* WebSocket.prototype.send, called on the handle h
send(st, h, frame) ==
  IF h = 0
    THEN [st EXCEPT !.thrown = @ \cup {"TypeError"}]
    ELSE IF st.ws[h].readyState = CONNECTING
      THEN [st EXCEPT !.thrown = @ \cup {"InvalidStateError"}]
      ELSE IF st.ws[h].readyState = OPEN
        THEN [st EXCEPT !.ws[h].sent = Append(@, frame)]
        ELSE [st EXCEPT !.ws[h].dropped = Append(@, frame)]

\* The call of send on the handle h throws: the statements that follow it in
\* the caller do not run.
sendThrows(st, h) == h = 0 \/ st.ws[h].readyState = CONNECTING

\* WebSocket.prototype.close, called on the handle h
close(st, h) ==
  IF st.ws[h].readyState \in {CONNECTING, OPEN}
    THEN [st EXCEPT !.ws[h].readyState = CLOSING]
    ELSE st

-----------------------------------------------------------------------------
(* History of fetch chains.  A chain is one fetchDoctorSummary() call with *)
(* retryAttempt 0 and the retries that follow from it.                     *)

Pending(ch) == ch.outcome = "pending"

\* The chain c starts: it is alone when no other chain is pending, and every
\* chain that is pending now has been overlapped.
ChainStarted(st) ==
  LET alone == \A i \in 1..Len(st.chains) : ~Pending(st.chains[i])
      marked == [i \in 1..Len(st.chains) |->
                   IF Pending(st.chains[i])
                     THEN [st.chains[i] EXCEPT !.alone = FALSE]
                     ELSE st.chains[i]]
  IN Append(marked,
            [origin |-> st.op, reqs |-> 1, notReady |-> 0, final |-> NetworkFailure,
             outcome |-> "pending", alone |-> alone,
             startLen |-> Len(st.chatMessages), endLen |-> 0])

-----------------------------------------------------------------------------
(* src/unnamed/part_000 *)

\* addSystemMessage with unshift in place of push.
addSystemMessage_unshift(st, text, type) ==
  [st EXCEPT !.chatMessages = <<SystemEntry(text, type)>> \o @]

\* Lines 167-175.
addSystemMessage(st, text, type) ==
  [st EXCEPT !.chatMessages = Append(@, SystemEntry(text, type))]

\* fetchDoctorSummary keeping the stored document on the first attempt.
fetchDoctorSummary_keep(st, retryAttempt, c) ==
  LET s1 == IF retryAttempt = 0
              THEN [st EXCEPT !.doctorSummaryLoading = TRUE,
                              !.doctorSummaryError = "",
                              !.chains = ChainStarted(st)]
              ELSE [st EXCEPT !.chains[c].reqs = @ + 1]
  IN [s1 EXCEPT !.requests = @ \cup {[chain |-> c, attempt |-> retryAttempt]}]

\* Lines 197-211: the synchronous part of fetchDoctorSummary, up to the
\* await on fetch().  c identifies the chain the call belongs to.
fetchDoctorSummary(st, retryAttempt, c) ==
  IF ~Truthy(userId)
    THEN addSystemMessage(
           [st EXCEPT !.doctorSummaryError = "User ID is not set. Cannot fetch summary."],
           "User ID is not set. Cannot fetch summary.", "error")
    ELSE LET s1 == IF retryAttempt = 0
                     THEN [st EXCEPT !.doctorSummaryLoading = TRUE,
                                     !.doctorSummary = NullValue,
                                     !.doctorSummaryError = "",
                                     !.chains = ChainStarted(st)]
                     ELSE [st EXCEPT !.chains[c].reqs = @ + 1]
         IN [s1 EXCEPT !.requests = @ \cup {[chain |-> c, attempt |-> retryAttempt]}]

\* Lines 238-243: the catch block.
fetchCatch(st, c, response, message) ==
  LET s1 == [st EXCEPT !.doctorSummaryError = message]
      s2 == addSystemMessage(s1, "Error fetching summary: " \o message, "error")
  IN [s2 EXCEPT !.doctorSummaryLoading = FALSE,
                !.chains[c].outcome = "failed",
                !.chains[c].final = response,
                !.chains[c].endLen = Len(s2.chatMessages)]

RetryNotice(retryAttempt) ==
  "Summary not ready yet. Retrying in " \o NumStr(SUMMARY_RETRY_DELAY \div 1000)
    \o "s (Attempt " \o NumStr(retryAttempt + 1) \o "/"
    \o NumStr(MAX_SUMMARY_RETRIES) \o ")..."

\* shouldRetry without the comparison of the message.
shouldRetry_any404(response, errorData, retryAttempt) ==
  /\ response.status = 404
  /\ retryAttempt < MAX_SUMMARY_RETRIES

\* shouldRetry without the bound on the number of attempts.
shouldRetry_unbounded(response, errorData, retryAttempt) ==
  /\ response.status = 404
  /\ errorData.message = "Doctor summary not yet available."

\* Line 216: the condition under which a retry is scheduled.
shouldRetry(response, errorData, retryAttempt) ==
  /\ response.status = 404
  /\ errorData.message = "Doctor summary not yet available."
  /\ retryAttempt < MAX_SUMMARY_RETRIES

\* Lines 213-224: a response whose status is not a success.
fetchNotOk(st, retryAttempt, c, response) ==
  LET p == JSONparse(response.body)
      errorData ==
        IF p.threw
          THEN [JSObject("") EXCEPT !.message =
                  "HTTP error! Status: " \o NumStr(response.status) \o " - "
                    \o response.statusText]
          ELSE p.value
  IN IF errorData.json = "null"
       THEN fetchCatch(st, c, response,
                       "Cannot read properties of null (reading 'message')")
       ELSE IF shouldRetry(response, errorData, retryAttempt)
         THEN LET s1 == addSystemMessage(st, RetryNotice(retryAttempt), "info")
              IN [s1 EXCEPT !.timers = @ \cup {[chain |-> c, attempt |-> retryAttempt + 1]},
                            !.chains[c].notReady = @ + 1]
         ELSE fetchCatch(st, c, response,
                         OrElse(errorData.message,
                                "Failed to fetch summary. Status: "
                                  \o NumStr(response.status)))

\* isErrorBody with || in place of &&.
isErrorBody_or(fetchedSummary) == fetchedSummary.json # "null"

\* isErrorBody reading the property `message` in place of `error`.
isErrorBody_message(fetchedSummary) ==
  fetchedSummary.json # "null" /\ Truthy(fetchedSummary.message)

\* Line 227: the fetched "summary" is an error object from the backend.
isErrorBody(fetchedSummary) ==
  fetchedSummary.json # "null" /\ Truthy(fetchedSummary.error)

\* Lines 226-236: a success response.
fetchOk(st, c, response) ==
  LET p == JSONparse(response.body)
      fetchedSummary == p.value
  IN IF p.threw
       THEN fetchCatch(st, c, response, SyntaxErrorMessage(response.body))
       ELSE IF isErrorBody(fetchedSummary)
         THEN LET s1 == [st EXCEPT !.doctorSummaryError =
                           "Server-side summary generation issue: "
                             \o Str(fetchedSummary.error)]
                  s2 == addSystemMessage(s1, s1.doctorSummaryError, "error")
              IN [s2 EXCEPT !.doctorSummary = NullValue,
                            !.doctorSummaryLoading = FALSE,
                            !.chains[c].outcome = "failed",
                            !.chains[c].final = response,
                            !.chains[c].endLen = Len(s2.chatMessages)]
         ELSE LET s1 == [st EXCEPT !.doctorSummary = fetchedSummary]
                  s2 == addSystemMessage(s1, "Doctor summary loaded successfully.", "info")
              IN [s2 EXCEPT !.doctorSummaryError = "",
                            !.doctorSummaryLoading = FALSE,
                            !.chains[c].outcome = "ready",
                            !.chains[c].final = response,
                            !.chains[c].endLen = Len(s2.chatMessages)]

\* Lines 211-214 and 226: fetchDoctorSummary resumed when fetch() settles.  A
\* rejected fetch goes to the catch block; a response has its body read, and
\* the function waits again, at response.json().
fetchSettled(st, retryAttempt, c, response) ==
  LET s0 == [st EXCEPT !.requests = @ \ {[chain |-> c, attempt |-> retryAttempt]}]
  IN IF response.network
       THEN fetchCatch(s0, c, response, "Failed to fetch")
       ELSE [s0 EXCEPT !.parsing =
               @ \cup {[chain |-> c, attempt |-> retryAttempt, response |-> response]}]

\* Lines 213-243: fetchDoctorSummary resumed when response.json() settles.
jsonSettled(st, retryAttempt, c, response) ==
  LET s0 == [st EXCEPT !.parsing =
               @ \ {[chain |-> c, attempt |-> retryAttempt, response |-> response]}]
  IN IF ~ok(response)
       THEN fetchNotOk(s0, retryAttempt, c, response)
       ELSE fetchOk(s0, c, response)

\* Line 219: the timer callback.
retryTimer(st, retryAttempt, c) ==
  fetchDoctorSummary(
    [st EXCEPT !.timers = @ \ {[chain |-> c, attempt |-> retryAttempt]}],
    retryAttempt, c)

\* connectWebSocket without its guard.
connectWebSocket_noGuard(st) ==
  [st EXCEPT !.connectionStatus = "Connecting...",
             !.ws = Append(@, NewWebSocket),
             !.socket = Len(st.ws) + 1]

\* Lines 100-108.
connectWebSocket(st) ==
  IF st.socket # 0 /\ st.ws[st.socket].readyState \in {OPEN, CONNECTING}
    THEN st
    ELSE [st EXCEPT !.connectionStatus = "Connecting...",
                    !.ws = Append(@, NewWebSocket),
                    !.socket = Len(st.ws) + 1]

onMounted(st) == connectWebSocket(st)

onUnmounted(st) ==
  IF st.socket # 0
    THEN LET s1 == [st EXCEPT !.ws[st.socket].handlers = {}]
             s2 == IF s1.ws[s1.socket].readyState \in {OPEN, CONNECTING}
                     THEN close(s1, s1.socket)
                     ELSE s1
         IN [s2 EXCEPT !.socket = 0]
    ELSE st

onopen(st) ==
  LET s1 == [st EXCEPT !.isConnected = TRUE, !.connectionStatus = "Connected"]
      s2 == addSystemMessage(s1, "Connection established with Care AI.", "info")
  IN send(s2, s2.socket,
          [type |-> "init_connection", userId |-> userId, message |-> Undefined])

\* isSummaryReady without the comparison of the userId.
isSummaryReady_anyUser(messageData) == messageData.type = "summary_ready"

\* isSummaryReady with the comparison of the userId inverted.
isSummaryReady_otherUser(messageData) ==
  messageData.type = "summary_ready" /\ messageData.userId # userId

\* Line 133: a summary_ready frame addressed to this session.
isSummaryReady(messageData) ==
  messageData.type = "summary_ready" /\ messageData.userId = userId

onmessage(st, data) ==
  LET p == JSONparse(data)
      messageData == p.value
  IN IF p.threw \/ messageData.json = "null"
       THEN addSystemMessage(st, "Received an unparseable message from the server.",
                             "error")
       ELSE IF messageData.type = "ai_response"
               /\ messageData.payload.json \notin {"undefined", "null"}
         THEN [st EXCEPT !.chatMessages =
                 Append(@, AiEntry(OrElse(messageData.payload.text,
                                          "AI response did not contain text."),
                                   messageData.payload.usage))]
         ELSE IF messageData.type = "system_message"
           THEN addSystemMessage(st, messageData.text, "info")
           ELSE IF messageData.type = "error"
             THEN addSystemMessage(st, "Server Error: " \o Str(messageData.message),
                                   "error")
             ELSE IF isSummaryReady(messageData)
               THEN fetchDoctorSummary(
                      addSystemMessage(st, "Doctor summary is now ready to be fetched!",
                                       "info"),
                      0, Len(st.chains) + 1)
               ELSE st

onerror(st) ==
  addSystemMessage(
    [st EXCEPT !.isConnected = FALSE, !.connectionStatus = "Connection Error"],
    "WebSocket connection error. Please check server and refresh.", "error")

\* Lines 158-161: the text of the close notice.
closeReason(event) ==
  IF event.code = 1006
    THEN "Connection lost abnormally. Please check server status."
    ELSE OrElse(event.reason, "Connection closed.")

onclose(st, event) ==
  LET s1 == [st EXCEPT !.isConnected = FALSE,
                       !.connectionStatus =
                         "Disconnected (Code: " \o NumStr(event.code) \o ")"]
      s2 == addSystemMessage(s1, closeReason(event), "error")
  IN [s2 EXCEPT !.socket = 0]

\* cannotSend comparing the input without trimming it.
cannotSend_noTrim(st) ==
  \/ st.userInput = <<>>
  \/ st.socket = 0
  \/ ~st.isConnected
  \/ st.ws[st.socket].readyState # OPEN

\* Line 178: the guard of sendMessage.
cannotSend(st) ==
  \/ trim(st.userInput) = <<>>
  \/ st.socket = 0
  \/ ~st.isConnected
  \/ st.ws[st.socket].readyState # OPEN

sendMessage(st) ==
  IF cannotSend(st)
    THEN LET s1 == addSystemMessage(
                     st, "Cannot send message. Not connected or input is empty.",
                     "error")
         IN IF \/ ~s1.isConnected
               \/ (s1.socket # 0 /\ s1.ws[s1.socket].readyState # OPEN)
              THEN connectWebSocket(s1)
              ELSE s1
    ELSE LET messagePayload ==
               [type |-> "chat_message", userId |-> userId, message |-> st.userInput]
             s1 == send(st, st.socket, messagePayload)
             s2 == [s1 EXCEPT !.chatMessages = Append(@, UserEntry(st.userInput))]
         IN IF sendThrows(st, st.socket)
              THEN s1
              ELSE [s2 EXCEPT !.userInput = <<>>]

-----------------------------------------------------------------------------
(* src/src/App.vue *)

App_addSystemMessage(st, text, type) ==
  [st EXCEPT !.chatMessages = Append(@, SystemEntry(text, type))]

\* Lines 175-185: the synchronous part of fetchDoctorSummary.
App_fetchDoctorSummary(st, c) ==
  IF ~Truthy(userId)
    THEN [st EXCEPT !.doctorSummaryError = "User ID is not set."]
    ELSE [st EXCEPT !.doctorSummaryLoading = TRUE,
                    !.doctorSummary = NullValue,
                    !.doctorSummaryError = "",
                    !.chains = ChainStarted(st),
                    !.requests = @ \cup {[chain |-> c, attempt |-> 0]}]

\* Lines 191-196: the catch and finally blocks.
App_fetchCatch(st, c, response, message) ==
  [st EXCEPT !.doctorSummaryError = message,
             !.doctorSummaryLoading = FALSE,
             !.chains[c].outcome = "failed",
             !.chains[c].final = response,
             !.chains[c].endLen = Len(st.chatMessages)]

\* Lines 185-187 and 190: fetchDoctorSummary resumed when fetch() settles.
App_fetchSettled(st, c, response) ==
  LET s0 == [st EXCEPT !.requests = @ \ {[chain |-> c, attempt |-> 0]}]
  IN IF response.network
       THEN App_fetchCatch(s0, c, response, "Failed to fetch")
       ELSE [s0 EXCEPT !.parsing =
               @ \cup {[chain |-> c, attempt |-> 0, response |-> response]}]

\* Lines 186-196: fetchDoctorSummary resumed when response.json() settles.
App_jsonSettled(st, c, response) ==
  LET s0 == [st EXCEPT !.parsing =
               @ \ {[chain |-> c, attempt |-> 0, response |-> response]}]
      p == JSONparse(response.body)
      errorData ==
        IF p.threw
          THEN [JSObject("") EXCEPT !.message =
                  "HTTP error! Status: " \o NumStr(response.status)]
          ELSE p.value
  IN IF ~ok(response)
       THEN IF errorData.json = "null"
              THEN App_fetchCatch(s0, c, response,
                                  "Cannot read properties of null (reading 'message')")
              ELSE App_fetchCatch(s0, c, response,
                                  OrElse(errorData.message,
                                         "Failed to fetch summary with status: "
                                           \o NumStr(response.status)))
       ELSE IF p.threw
         THEN App_fetchCatch(s0, c, response, SyntaxErrorMessage(response.body))
         ELSE [s0 EXCEPT !.doctorSummary = p.value,
                         !.doctorSummaryLoading = FALSE,
                         !.chains[c].outcome = "ready",
                         !.chains[c].final = response,
                         !.chains[c].endLen = Len(s0.chatMessages)]

App_connectWebSocket(st) ==
  [st EXCEPT !.connectionStatus = "Connecting...",
             !.ws = Append(@, NewWebSocket),
             !.socket = Len(st.ws) + 1]

App_onMounted(st) == App_connectWebSocket(st)

App_onUnmounted(st) ==
  IF st.socket # 0
    THEN close([st EXCEPT !.ws[st.socket].handlers = {}], st.socket)
    ELSE st

App_onopen(st) ==
  LET s1 == [st EXCEPT !.isConnected = TRUE, !.connectionStatus = "Connected"]
      s2 == App_addSystemMessage(s1, "Connection established with Care AI.", "info")
  IN send(s2, s2.socket,
          [type |-> "init_connection", userId |-> userId, message |-> Undefined])

App_onmessage(st, data) ==
  LET p == JSONparse(data)
      messageData == p.value
  IN IF p.threw \/ messageData.json = "null"
       THEN App_addSystemMessage(
              st, "Received an unparseable message from the server.", "error")
       ELSE IF messageData.type = "ai_response"
               /\ messageData.payload.json \notin {"undefined", "null"}
         THEN [st EXCEPT !.chatMessages =
                 Append(@, AiEntry(OrElse(messageData.payload.text,
                                          "AI didn't send text."),
                                   messageData.payload.usage))]
         ELSE IF messageData.type = "system_message"
           THEN App_addSystemMessage(st, messageData.text, "info")
           ELSE IF messageData.type = "error"
             THEN App_addSystemMessage(
                    st, "Server Error: " \o Str(messageData.message), "error")
             ELSE st

App_onerror(st) ==
  App_addSystemMessage(
    [st EXCEPT !.isConnected = FALSE, !.connectionStatus = "Error"],
    "WebSocket connection error. Please try refreshing.", "error")

App_onclose(st, event) ==
  App_addSystemMessage(
    [st EXCEPT !.isConnected = FALSE,
               !.connectionStatus =
                 "Disconnected (Code: " \o NumStr(event.code) \o ")"],
    "Connection closed. " \o OrElse(event.reason, ""), "error")

\* App_cannotSend without the test of isConnected.
App_cannotSend_noConnected(st) ==
  trim(st.userInput) = <<>> \/ st.socket = 0

\* Line 160: the guard of sendMessage.
App_cannotSend(st) ==
  trim(st.userInput) = <<>> \/ st.socket = 0 \/ ~st.isConnected

\* App_sendMessage that reconnects when it refuses.
App_sendMessage_reconnect(st) ==
  IF App_cannotSend(st)
    THEN App_connectWebSocket(
           App_addSystemMessage(
             st, "Cannot send message. Not connected or input is empty.", "error"))
    ELSE LET messagePayload ==
               [type |-> "chat_message", userId |-> userId, message |-> st.userInput]
             s1 == send(st, st.socket, messagePayload)
             s2 == [s1 EXCEPT !.chatMessages = Append(@, UserEntry(st.userInput))]
         IN IF sendThrows(st, st.socket)
              THEN s1
              ELSE [s2 EXCEPT !.userInput = <<>>]

\* Lines 159-173.
App_sendMessage(st) ==
  IF App_cannotSend(st)
    THEN App_addSystemMessage(
           st, "Cannot send message. Not connected or input is empty.", "error")
    ELSE LET messagePayload ==
               [type |-> "chat_message", userId |-> userId, message |-> st.userInput]
             s1 == send(st, st.socket, messagePayload)
             s2 == [s1 EXCEPT !.chatMessages = Append(@, UserEntry(st.userInput))]
         IN IF sendThrows(st, st.socket)
              THEN s1
              ELSE [s2 EXCEPT !.userInput = <<>>]

-----------------------------------------------------------------------------
(* Inputs *)

Inputs == {<<>>, <<" ">>, <<" ", "h">>}

Frames == {F_AI_HI, F_AI_USAGE, F_AI_EMPTY, F_AI_BARE, F_SYSTEM, F_ERROR, F_READY,
           F_READY_OTHER, F_PING, F_NULL, F_GARBAGE}

Responses ==
  {R_NOT_READY, R_SUMMARY, R_ERROR_BODY, NetworkFailure,
   Response(404, "Not Found", B_NOT_FOUND),
   Response(500, "Internal Server Error", B_NOT_READY),
   Response(200, "OK", F_GARBAGE)}

PushFrames == {F_READY}

ConnFrames == {F_AI_HI}

PushResponses == {R_NOT_READY, R_SUMMARY}

AppendFrames == {F_AI_HI, F_READY}

LiveResponses == {R_NOT_READY, R_SUMMARY, NetworkFailure}

NormalClose == {[code |-> 1000, reason |-> ""]}

CloseEvents ==
  {[code |-> 1000, reason |-> ""], [code |-> 1000, reason |-> "bye"],
   [code |-> 1006, reason |-> ""], [code |-> 1006, reason |-> "bye"]}

-----------------------------------------------------------------------------
(* The state machine *)

Start ==
  /\ mounted = "init"
  /\ userInput = <<>>
  /\ chatMessages = <<>>
  /\ doctorSummary = NullValue
  /\ doctorSummaryLoading = FALSE
  /\ doctorSummaryError = ""
  /\ socket = 0
  /\ connectionStatus = "Disconnected"
  /\ isConnected = FALSE
  /\ ws = <<>>
  /\ requests = {}
  /\ parsing = {}
  /\ timers = {}
  /\ thrown = {}
  /\ chains = <<>>
  /\ delivered = <<>>
  /\ sends = 0
  /\ notReady = 0

Init == variant \in {PART, APP} /\ Start

\* The component is mounted: onMounted runs.
Mount ==
  /\ mounted = "init"
  /\ mounted' = "mounted"
  /\ Commit(IF variant = PART THEN onMounted(Cur("mount"))
                              ELSE App_onMounted(Cur("mount")))
  /\ UNCHANGED <<variant, delivered, sends, notReady>>

\* The component is unmounted: onUnmounted runs.
Unmount ==
  /\ mounted = "mounted"
  /\ mounted' = "unmounted"
  /\ Commit(IF variant = PART THEN onUnmounted(Cur("unmount"))
                              ELSE App_onUnmounted(Cur("unmount")))
  /\ UNCHANGED <<variant, delivered, sends, notReady>>

\* The user edits the input box (v-model; the box is disabled while
\* isConnected is false).
Type ==
  /\ mounted = "mounted"
  /\ isConnected
  /\ \E s \in Inputs :
       /\ s # userInput
       /\ userInput' = s
  /\ UNCHANGED <<variant, mounted, chatMessages, doctorSummary,
                 doctorSummaryLoading, doctorSummaryError, socket,
                 connectionStatus, isConnected, ws, requests, parsing, timers,
                 thrown, chains, delivered, sends, notReady>>

\* sendMessage() is called: Enter in the input box or a click on the Send
\* button, both disabled while isConnected is false (template lines 23, 25).
Send ==
  /\ mounted = "mounted"
  /\ isConnected
  /\ sends < MaxSends
  /\ LET s == IF variant = PART THEN sendMessage(Cur("send"))
                                ELSE App_sendMessage(Cur("send"))
     IN /\ Len(s.ws) <= MaxSockets
        /\ Commit(s)
  /\ sends' = sends + 1
  /\ UNCHANGED <<variant, mounted, delivered, notReady>>

\* The user clicks the fetch button (disabled while loading in part_000).
FetchClick ==
  /\ mounted = "mounted"
  /\ Len(chains) < MaxFetches
  /\ variant = PART => ~doctorSummaryLoading
  /\ Commit(IF variant = PART
              THEN fetchDoctorSummary(Cur("button"), 0, Len(chains) + 1)
              ELSE App_fetchDoctorSummary(Cur("button"), Len(chains) + 1))
  /\ UNCHANGED <<variant, mounted, delivered, sends, notReady>>

\* fetch() of the request rq settles with the response (or network failure)
\* given.
SettleWith(rq, response) ==
  /\ rq \in requests
  /\ response = R_NOT_READY => notReady < MaxNotReady
  /\ notReady' = IF response = R_NOT_READY THEN notReady + 1 ELSE notReady
  /\ Commit(IF variant = PART
              THEN fetchSettled(Cur("settle"), rq.attempt, rq.chain, response)
              ELSE App_fetchSettled(Cur("settle"), rq.chain, response))
  /\ UNCHANGED <<variant, mounted, delivered, sends>>

\* fetch() of a summary request settles.
Settle(R) == \E rq \in requests : \E response \in R : SettleWith(rq, response)

\* response.json() of the response b settles.
BodyWith(b) ==
  /\ b \in parsing
  /\ Commit(IF variant = PART
              THEN jsonSettled(Cur("body"), b.attempt, b.chain, b.response)
              ELSE App_jsonSettled(Cur("body"), b.chain, b.response))
  /\ UNCHANGED <<variant, mounted, delivered, sends, notReady>>

\* The body of a response has been read.
Body == \E b \in parsing : BodyWith(b)

\* A retry timer fires.
Timer ==
  \E tm \in timers :
    /\ Commit(retryTimer(Cur("timer"), tm.attempt, tm.chain))
    /\ UNCHANGED <<variant, mounted, delivered, sends, notReady>>

\* The handler h of transport t, applied to st when it is still attached.
Fire(st, t, h, App_h, name) ==
  IF name \in st.ws[t].handlers
    THEN IF variant = PART THEN h ELSE App_h
    ELSE st

\* The connection of transport t is established.
SocketOpens ==
  \E t \in 1..Len(ws) :
    /\ ws[t].readyState = CONNECTING
    /\ LET s0 == [Cur("open") EXCEPT !.ws[t].readyState = OPEN]
       IN Commit(Fire(s0, t, onopen(s0), App_onopen(s0), "onopen"))
    /\ UNCHANGED <<variant, mounted, delivered, sends, notReady>>

\* Transport t delivers a frame to its onmessage handler.
SocketMessage(F) ==
  \E t \in 1..Len(ws) : \E data \in F :
    /\ ws[t].readyState = OPEN
    /\ "onmessage" \in ws[t].handlers
    /\ Len(delivered) < MaxFrames
    /\ LET s0 == Cur("push")
           s == Fire(s0, t, onmessage(s0, data), App_onmessage(s0, data), "onmessage")
       IN /\ Len(s.chains) <= MaxFetches
          /\ Commit(s)
    /\ delivered' = Append(delivered, data)
    /\ UNCHANGED <<variant, mounted, sends, notReady>>

\* The closing handshake of transport t starts: readyState becomes CLOSING.
SocketClosing ==
  \E t \in 1..Len(ws) :
    /\ ws[t].readyState = OPEN
    /\ ws' = [ws EXCEPT ![t].readyState = CLOSING]
    /\ UNCHANGED <<variant, mounted, userInput, chatMessages, doctorSummary,
                   doctorSummaryLoading, doctorSummaryError, socket,
                   connectionStatus, isConnected, requests, parsing, timers,
                   thrown, chains, delivered, sends, notReady>>

\* The connection of transport t is closed: readyState becomes CLOSED and the
\* close event is fired.
CloseWith(t, event) ==
  /\ t \in 1..Len(ws)
  /\ ws[t].readyState # CLOSED
  /\ LET s0 == [Cur("close") EXCEPT !.ws[t].readyState = CLOSED]
     IN Commit(Fire(s0, t, onclose(s0, event), App_onclose(s0, event), "onclose"))
  /\ UNCHANGED <<variant, mounted, delivered, sends, notReady>>

SocketCloses(E) == \E t \in 1..Len(ws) : \E event \in E : CloseWith(t, event)

\* The connection of transport t fails: readyState becomes CLOSED, the error
\* event is fired and then, in the same task, the close event with code 1006.
SocketFails ==
  \E t \in 1..Len(ws) :
    /\ ws[t].readyState # CLOSED
    /\ LET event == [code |-> ABNORMAL_CLOSURE, reason |-> ""]
           s0 == [Cur("fail") EXCEPT !.ws[t].readyState = CLOSED]
           s1 == Fire(s0, t, onerror(s0), App_onerror(s0), "onerror")
       IN Commit(Fire(s1, t, onclose(s1, event), App_onclose(s1, event), "onclose"))
    /\ UNCHANGED <<variant, mounted, delivered, sends, notReady>>

\* The connection manager of both variants: every lifecycle event of every
\* transport, sends and teardown.  Pushed summary requests stay in flight.
Next ==
  \/ Mount
  \/ Unmount
  \/ Type
  \/ Send
  \/ SocketOpens
  \/ SocketMessage(ConnFrames)
  \/ SocketClosing
  \/ SocketCloses(CloseEvents)
  \/ SocketFails

Spec == Init /\ [][Next]_vars

\* The frame dispatcher of both variants: every kind of inbound frame, with
\* the sends, closes and summary fetches that add entries of their own.
NextFrames ==
  \/ Mount
  \/ SocketOpens
  \/ SocketMessage(Frames)
  \/ SocketCloses(NormalClose)
  \/ Settle(PushResponses)
  \/ Body
  \/ Timer

SpecFrames == Init /\ [][NextFrames]_vars

\* The summary fetcher of part_000: button and pushed fetches, every kind of
\* response, retry timers.
InitFetch == variant = PART /\ Start

NextFetch ==
  \/ Mount
  \/ SocketOpens
  \/ SocketMessage(PushFrames)
  \/ FetchClick
  \/ Settle(Responses)
  \/ Body
  \/ Timer

SpecFetch == InitFetch /\ [][NextFetch]_vars

\* The handle is null or one of the transports created.
TypeOK == socket \in 0..Len(ws)

-----------------------------------------------------------------------------
(* Properties of the summary fetcher *)

\* The retry notices, as they appear in the transcript.
IsRetryNotice(e) ==
  /\ e.sender = "system"
  /\ e.text \in {"Summary not ready yet. Retrying in 3s (Attempt 1/3)...",
                 "Summary not ready yet. Retrying in 3s (Attempt 2/3)...",
                 "Summary not ready yet. Retrying in 3s (Attempt 3/3)..."}

\* Number of retry notices appended between the start and the end of chain c.
RetryNoticesOf(c) ==
  Cardinality({i \in (chains[c].startLen + 1)..chains[c].endLen :
                 IsRetryNotice(chatMessages[i])})

\* The response is the "not ready" signal of the endpoint.
NotReadySignal(r) ==
  /\ ~r.network
  /\ r.status = 404
  /\ ~JSONparse(r.body).threw
  /\ JSONparse(r.body).value.json = "object"
  /\ JSONparse(r.body).value.message = "Doctor summary not yet available."

\* The response is a success whose body carries no error indicator.
ErrorFree(r) ==
  /\ ~r.network
  /\ ok(r)
  /\ ~JSONparse(r.body).threw
  /\ \/ JSONparse(r.body).value.json = "null"
     \/ ~Truthy(JSONparse(r.body).value.error)

\* The response is a success whose body carries an error indicator.
HasErrorIndicator(r) ==
  /\ ~r.network
  /\ ok(r)
  /\ ~JSONparse(r.body).threw
  /\ JSONparse(r.body).value.json = "object"
  /\ Truthy(JSONparse(r.body).value.error)

\* The response is a failure: no response at all, a status that is not a
\* success, or a body that does not parse.
Failure(r) == r.network \/ ~ok(r) \/ JSONparse(r.body).threw

\* A fetch started by the button that no other fetch overlaps.
Single(c) == chains[c].origin = "button" /\ chains[c].alone

\* C1: a button fetch that only ever gets the "not ready" response makes
\* MAX_SUMMARY_RETRIES retries (MAX_SUMMARY_RETRIES + 1 requests) and then
\* fails; doctorSummaryLoading is true in every state from the click until
\* that failure, and false after it.
C1_NotReadyRetries ==
  \A c \in 1..Len(chains) :
    chains[c].origin = "button" =>
      /\ Pending(chains[c]) => doctorSummaryLoading
      /\ (~Pending(chains[c]) /\ chains[c].final = R_NOT_READY) =>
           /\ chains[c].outcome = "failed"
           /\ chains[c].reqs = MAX_SUMMARY_RETRIES + 1
           /\ chains[c].notReady = MAX_SUMMARY_RETRIES
           /\ c = Len(chains) => ~doctorSummaryLoading

\* C2: a button fetch that no other fetch overlaps and that gets k "not
\* ready" responses and then a success with an error-free body has appended
\* exactly k retry notices, and ends with doctorSummary equal to the returned
\* document, doctorSummaryError empty and doctorSummaryLoading false.
C2_RetriesThenSuccess ==
  \A c \in 1..Len(chains) :
    (Single(c) /\ ~Pending(chains[c]) /\ ErrorFree(chains[c].final)) =>
      /\ chains[c].outcome = "ready"
      /\ chains[c].notReady \in 0..MAX_SUMMARY_RETRIES
      /\ chains[c].reqs = chains[c].notReady + 1
      /\ RetryNoticesOf(c) = chains[c].notReady
      /\ c = Len(chains) =>
           /\ doctorSummary = JSONparse(chains[c].final.body).value
           /\ doctorSummaryError = ""
           /\ ~doctorSummaryLoading

C2_Witness ==
  \E c \in 1..Len(chains) :
    /\ Single(c)
    /\ c = Len(chains)
    /\ chains[c].notReady = 3
    /\ chains[c].final = R_SUMMARY
    /\ RetryNoticesOf(c) = 3
    /\ doctorSummary = JSONparse(B_SUMMARY).value
    /\ doctorSummaryError = ""
    /\ ~doctorSummaryLoading

\* C3: the summary state is never both Ready and Failed: doctorSummary is
\* never non-null together with a non-empty doctorSummaryError.
C3_NeverReadyAndFailed ==
  ~(doctorSummary # NullValue /\ doctorSummaryError # "")

\* The step reads the body of the response b: only BodyWith(b) takes b out
\* of `parsing`.
BodyRead(b) == b \in parsing /\ b \notin parsing'

\* The step is the rejection of the fetch of rq: only SettleWith takes rq out
\* of `requests`, and with a response it puts the response into `parsing`.
Rejected(rq) == rq \in requests /\ rq \notin requests' /\ parsing' = parsing

\* C4: when the body of a response with a success status has been read and
\* carries a truthy `error`, doctorSummary is null, doctorSummaryError is
\* non-empty and doctorSummaryLoading is false after the step.
C4_ErrorBody ==
  [][\A b \in parsing :
       (HasErrorIndicator(b.response) /\ BodyRead(b)) =>
         /\ doctorSummary' = NullValue
         /\ doctorSummaryError' # ""
         /\ ~doctorSummaryLoading']_vars

C4_Witness ==
  \E c \in 1..Len(chains) :
    /\ c = Len(chains)
    /\ chains[c].final = R_ERROR_BODY
    /\ chains[c].outcome = "failed"
    /\ doctorSummary = NullValue
    /\ doctorSummaryError = "Server-side summary generation issue: generation failed"
    /\ ~doctorSummaryLoading

\* C5: a retry timer is scheduled only when the body read is the "not ready"
\* signal (status 404 with the exact message) at an attempt below
\* MAX_SUMMARY_RETRIES; any other failure (a rejected fetch, another status
\* or message, a body that is not JSON) sets doctorSummaryError, clears
\* doctorSummaryLoading, schedules no timer and issues no request.
C5_RetryOnlyNotReady ==
  [][/\ \A rq \in requests :
          rq \notin requests' => timers' = timers
     /\ \A rq \in requests :
          Rejected(rq) =>
            /\ doctorSummaryError' # ""
            /\ ~doctorSummaryLoading'
            /\ requests' = requests \ {rq}
     /\ \A b \in parsing :
          BodyRead(b) =>
            /\ timers' # timers =>
                 NotReadySignal(b.response) /\ b.attempt < MAX_SUMMARY_RETRIES
            /\ (/\ Failure(b.response)
                /\ ~(NotReadySignal(b.response) /\ b.attempt < MAX_SUMMARY_RETRIES)) =>
                 /\ doctorSummaryError' # ""
                 /\ ~doctorSummaryLoading'
                 /\ timers' = timers
                 /\ requests' = requests
                 /\ parsing' = parsing \ {b}]_vars

C5_Witness ==
  \E c \in 1..Len(chains) :
    /\ c = Len(chains)
    /\ chains[c].final = Response(404, "Not Found", B_NOT_FOUND)
    /\ chains[c].reqs = 1
    /\ chains[c].outcome = "failed"
    /\ doctorSummaryError = "Not Found"
    /\ ~doctorSummaryLoading
    /\ timers = {}
    /\ requests = {}
    /\ parsing = {}

-----------------------------------------------------------------------------
(* Properties of the connection manager *)

\* Number of elements of the sequence seq that satisfy P.
Count(seq, P(_)) == Cardinality({i \in 1..Len(seq) : P(seq[i])})

\* The type tag of a frame, undefined when the frame is not a JSON object.
TypeOf(data) ==
  IF JSONparse(data).threw \/ JSONparse(data).value.json # "object"
    THEN Undefined
    ELSE JSONparse(data).value.type

\* The frame carries one of the four recognized type tags.
Recognized(data) ==
  TypeOf(data) \in {"ai_response", "system_message", "error", "summary_ready"}

\* The frame is one that the dispatcher turns into a transcript entry.
Dispatched(data) ==
  \/ TypeOf(data) \in {"system_message", "error"}
  \/ TypeOf(data) = "ai_response" /\ JSONparse(data).value.payload.json = "object"
  \/ TypeOf(data) = "summary_ready" /\ JSONparse(data).value.userId = userId

\* Transcript entries by origin.  The texts that frames of the model put into
\* the transcript differ from every text the component generates itself.
IsUser(e) == e.sender = "user"

FromFrame(e) ==
  \/ e.sender = "ai"
  \/ /\ e.sender = "system"
     /\ e.text \in {"Welcome", "Server Error: boom",
                    "Doctor summary is now ready to be fetched!"}

IsLocalNotice(e) == e.sender = "system" /\ ~FromFrame(e)

\* C6 as stated: the transcript length is the number of delivered frames with
\* a recognized type tag plus the number of locally generated notices (and
\* the user's own messages).
C6_RecognizedFrames ==
  variant = PART =>
    Len(chatMessages) = Count(delivered, Recognized)
                          + Count(chatMessages, IsLocalNotice)
                          + Count(chatMessages, IsUser)

\* C6 as amended: the transcript length is the number of delivered frames
\* that are an ai_response with a payload, a system_message, an error or a
\* summary_ready carrying the session's userId, plus the number of locally
\* generated notices (and the user's own messages); every other frame adds
\* no entry of its own.
C6_DispatchedFrames ==
  variant = PART =>
    Len(chatMessages) = Count(delivered, Dispatched)
                          + Count(chatMessages, IsLocalNotice)
                          + Count(chatMessages, IsUser)

C6_Witness ==
  /\ variant = PART
  /\ Len(delivered) = 2
  /\ F_AI_BARE \in {delivered[i] : i \in 1..Len(delivered)}
  /\ F_READY \in {delivered[i] : i \in 1..Len(delivered)}
  /\ Count(chatMessages, FromFrame) = 1
  /\ Count(chatMessages, IsLocalNotice) >= 2

\* A step of sendMessage().
SendStep == sends' = sends + 1

\* The input is empty or consists of white space only.
Blank(s) == \A i \in 1..Len(s) : s[i] \in {" ", "\t", "\n"}

\* No frame is handed to any transport during the step.
NoTransmit ==
  /\ Len(ws') >= Len(ws)
  /\ \A t \in 1..Len(ws) :
       ws'[t].sent = ws[t].sent /\ ws'[t].dropped = ws[t].dropped
  /\ \A t \in (Len(ws) + 1)..Len(ws') :
       ws'[t].sent = <<>> /\ ws'[t].dropped = <<>>

\* C7: in both variants and in any connection state, sendMessage() with an
\* empty or whitespace-only input hands no frame to any transport, appends no
\* user entry and leaves the input unchanged.
C7_BlankInput ==
  [][(SendStep /\ Blank(userInput)) =>
       /\ NoTransmit
       /\ Count(chatMessages', IsUser) = Count(chatMessages, IsUser)
       /\ userInput' = userInput]_vars

C7_Witness ==
  /\ sends = 1
  /\ userInput = <<" ">>
  /\ isConnected
  /\ socket # 0
  /\ ws[socket].readyState = OPEN
  /\ Len(ws[socket].sent) = 1
  /\ Len(chatMessages) = 2
  /\ chatMessages[2].text = "Cannot send message. Not connected or input is empty."

\* The state after a call of sendMessage() in the current state.
SendResult ==
  IF variant = PART THEN sendMessage(Cur("send")) ELSE App_sendMessage(Cur("send"))

\* The call hands no frame to any transport.
NoTransmitIn(s) ==
  /\ Len(s.ws) >= Len(ws)
  /\ \A t \in 1..Len(ws) :
       s.ws[t].sent = ws[t].sent /\ s.ws[t].dropped = ws[t].dropped
  /\ \A t \in (Len(ws) + 1)..Len(s.ws) :
       s.ws[t].sent = <<>> /\ s.ws[t].dropped = <<>>

\* C8: in both variants and in every reachable state in which isConnected is
\* false or there is no transport handle, sendMessage() with a non-blank input
\* hands no frame to any transport and appends exactly one entry, a system
\* notice of severity error, also when the call starts a reconnection.
C8_Disconnected ==
  (~Blank(userInput) /\ (~isConnected \/ socket = 0)) =>
    /\ NoTransmitIn(SendResult)
    /\ Len(SendResult.chatMessages) = Len(chatMessages) + 1
    /\ SubSeq(SendResult.chatMessages, 1, Len(chatMessages)) = chatMessages
    /\ SendResult.chatMessages[Len(chatMessages) + 1].sender = "system"
    /\ SendResult.chatMessages[Len(chatMessages) + 1].type = "error"

C8_Witness ==
  /\ variant = PART
  /\ mounted = "mounted"
  /\ ~Blank(userInput)
  /\ ~isConnected
  /\ socket = 0
  /\ Len(ws) = 1
  /\ ws[1].readyState = CLOSED
  /\ Len(SendResult.ws) = 2
  /\ SendResult.connectionStatus = "Connecting..."
  /\ Len(SendResult.chatMessages) = Len(chatMessages) + 1
  /\ SendResult.chatMessages[Len(chatMessages) + 1].text =
       "Cannot send message. Not connected or input is empty."

\* The status line and the notice that the claim gives for a close event.
ClaimedStatus(e) ==
  IF e.code = 1006 THEN "Disconnected (Code: 1006)" ELSE "Disconnected (Code: 1000)"

ClaimedCloseText(e) ==
  IF e.code = 1006
    THEN "Connection lost abnormally. Please check server status."
    ELSE IF e.reason # "" THEN e.reason ELSE "Connection closed."

\* The effect of a close event: the status, isConnected, and one system
\* notice with the text given.
CloseEffect(e, text) ==
  /\ connectionStatus' = ClaimedStatus(e)
  /\ ~isConnected'
  /\ Len(chatMessages') = Len(chatMessages) + 1
  /\ SubSeq(chatMessages', 1, Len(chatMessages)) = chatMessages
  /\ chatMessages'[Len(chatMessages')].sender = "system"
  /\ chatMessages'[Len(chatMessages')].text = text

\* C9: every close event handled by onclose sets the status to
\* `Disconnected (Code: c)`, clears isConnected and appends one system notice:
\* the abnormal-closure message for code 1006, otherwise the reason or the
\* generic fallback.
C9_CloseNotice ==
  [][\A t \in 1..Len(ws) : \A e \in CloseEvents :
       (CloseWith(t, e) /\ "onclose" \in ws[t].handlers) =>
         CloseEffect(e, ClaimedCloseText(e))]_vars

\* A lifecycle event of some transport: a readyState changes or a frame is
\* delivered.
LifecycleStep == ws' # ws \/ delivered' # delivered

\* C10: in part_000, once onUnmounted has run, no lifecycle event of any
\* transport changes the transcript, connectionStatus, isConnected or the
\* handle.
C10_QuietAfterTeardown ==
  [][(variant = PART /\ mounted = "unmounted" /\ LifecycleStep) =>
       UNCHANGED <<chatMessages, connectionStatus, isConnected, socket>>]_vars

\* The transports that are open or connecting.
Live == {t \in 1..Len(ws) : ws[t].readyState \in {CONNECTING, OPEN}}

\* At most one transport is open or connecting.
C11_OneLiveTransport ==
  variant = PART => Cardinality(Live) <= 1

\* C11: in part_000 at most one transport is open or connecting at any time,
\* and while one is, no step creates a transport and a sendMessage() that
\* reaches connectWebSocket() leaves connectionStatus unchanged.
C11_ConnectIdempotent ==
  /\ []C11_OneLiveTransport
  /\ [][(variant = PART /\ Live # {}) =>
           /\ Len(ws') = Len(ws)
           /\ SendStep => connectionStatus' = connectionStatus]_vars

C11_Witness ==
  /\ variant = PART
  /\ sends = 2
  /\ Len(ws) = 2
  /\ ws[1].readyState = CLOSING
  /\ ws[2].readyState = CONNECTING
  /\ socket = 2
  /\ connectionStatus = "Connecting..."
  /\ Len(chatMessages) >= 2
  /\ \A i \in {Len(chatMessages) - 1, Len(chatMessages)} :
       chatMessages[i].text = "Cannot send message. Not connected or input is empty."

\* The frame is the handshake carrying the session's userId.
IsInit(f) == f.type = "init_connection" /\ f.userId = userId

IsChat(f) == f.type = "chat_message"

\* C12: in part_000 every transport whose open event was handled by onopen
\* has been handed exactly one init_connection frame with the session's
\* userId, and that frame is the first one handed to it.
C12_HandshakeOnOpen ==
  variant = PART =>
    \A t \in 1..Len(ws) :
      (ws[t].readyState = OPEN /\ "onopen" \in ws[t].handlers) =>
        /\ ws[t].sent # <<>>
        /\ IsInit(ws[t].sent[1])
        /\ Count(ws[t].sent, IsInit) = 1

\* Every operation of the component in one machine: lifecycle events, sends,
\* summary fetches, retry timers and teardown, for as long as the transcript
\* holds at most MaxTranscript entries.
Short == Len(chatMessages') <= MaxTranscript

NextAll ==
  \/ Mount /\ Short
  \/ Unmount /\ Short
  \/ Type /\ Short
  \/ Send /\ Short
  \/ FetchClick /\ Short
  \/ Settle(PushResponses) /\ Short
  \/ Body /\ Short
  \/ Timer /\ Short
  \/ SocketOpens /\ Short
  \/ SocketMessage(AppendFrames) /\ Short
  \/ SocketCloses(NormalClose) /\ Short
  \/ SocketFails /\ Short

SpecAll == Init /\ [][NextAll]_vars

\* C13: the transcript is append-only: in every step the transcript before
\* the step is a prefix of the transcript after it.
C13_AppendOnly ==
  [][/\ Len(chatMessages') >= Len(chatMessages)
     /\ SubSeq(chatMessages', 1, Len(chatMessages)) = chatMessages]_vars

C13_Witness ==
  /\ Len(chatMessages) >= 4
  /\ \E i \in 1..Len(chatMessages) : chatMessages[i].sender = "user"
  /\ \E i \in 1..Len(chatMessages) : chatMessages[i].sender = "ai"
  /\ \E i \in 1..Len(chatMessages) :
       chatMessages[i].sender = "system" /\ chatMessages[i].type = "error"
  /\ mounted = "unmounted"

-----------------------------------------------------------------------------
(* Properties of the frame dispatcher *)

\* The frame is an ai_response that has a payload.
AiWithPayload(data) ==
  TypeOf(data) = "ai_response" /\ JSONparse(data).value.payload.json = "object"

\* The placeholder each variant shows for an AI response without text.
Placeholder ==
  IF variant = PART THEN "AI response did not contain text."
                    ELSE "AI didn't send text."

\* The AI entry the frame is to produce.
ClaimedAiEntry(data) ==
  LET payload == JSONparse(data).value.payload
  IN [sender |-> "ai",
      text |-> IF payload.text \in {Undefined, Null, ""}
                 THEN Placeholder ELSE payload.text,
      type |-> Undefined,
      usage |-> payload.usage]

\* C14: in both variants a delivered ai_response frame that has a payload
\* appends exactly one entry, the AI entry with payload.text (the placeholder
\* when the text is absent or empty) and payload.usage, and no system notice.
C14_AiEntry ==
  [][\A data \in Frames :
       (delivered' = Append(delivered, data) /\ AiWithPayload(data)) =>
         chatMessages' = Append(chatMessages, ClaimedAiEntry(data))]_vars

C14_Witness ==
  /\ delivered = <<F_AI_HI>>
  /\ Len(chatMessages) = 2
  /\ chatMessages[1].text = "Connection established with Care AI."
  /\ chatMessages[2] = [sender |-> "ai", text |-> "hi", type |-> Undefined,
                        usage |-> Undefined]

\* The frame is not JSON.
Unparseable(data) == JSONparse(data).threw

\* C15: in part_000 a delivered frame of any kind leaves connectionStatus,
\* isConnected and the handle as they were, and a frame that is not JSON
\* appends exactly one system notice of severity error.
C15_FramesKeepConnection ==
  [][\A data \in Frames :
       (variant = PART /\ delivered' = Append(delivered, data)) =>
         /\ UNCHANGED <<connectionStatus, isConnected, socket>>
         /\ Unparseable(data) =>
              /\ Len(chatMessages') = Len(chatMessages) + 1
              /\ SubSeq(chatMessages', 1, Len(chatMessages)) = chatMessages
              /\ chatMessages'[Len(chatMessages')].sender = "system"
              /\ chatMessages'[Len(chatMessages')].type = "error"]_vars

C15_Witness ==
  /\ variant = PART
  /\ delivered = <<F_READY, F_GARBAGE>>
  /\ chatMessages[Len(chatMessages)] =
       [sender |-> "system",
        text |-> "Received an unparseable message from the server.",
        type |-> "error", usage |-> Undefined]
  /\ isConnected
  /\ connectionStatus = "Connected"
  /\ socket = 1

-----------------------------------------------------------------------------
(* Properties of the summary state *)

\* A document is stored.
Ready == doctorSummary # NullValue

\* A step in which fetchDoctorSummary runs with retryAttempt 0.
EntersLoading == Len(chains') = Len(chains) + 1

\* A step in which a retry timer fires.
RetryStep == timers' # timers /\ Cardinality(timers') < Cardinality(timers)

\* C16 as stated: in part_000 the summary state never enters Loading from a
\* state in which a document is stored.
C16_LoadingNotFromReady ==
  [][(variant = PART /\ EntersLoading) => ~Ready]_vars

\* C16 as amended: in part_000 the summary state enters Loading from any
\* state, Ready included, and only through a call with retryAttempt 0, which
\* sets the flag and clears the stored document and the error; a retry
\* changes none of the three.
C16_LoadingFromAnyState ==
  [][variant = PART =>
       /\ EntersLoading =>
            /\ doctorSummaryLoading'
            /\ doctorSummary' = NullValue
            /\ doctorSummaryError' = ""
       /\ (doctorSummaryLoading' /\ ~doctorSummaryLoading) => EntersLoading
       /\ RetryStep =>
            UNCHANGED <<doctorSummaryLoading, doctorSummary, doctorSummaryError>>]_vars

C16_Witness ==
  /\ variant = PART
  /\ Len(chains) = 2
  /\ chains[1].outcome = "ready"
  /\ chains[1].alone
  /\ chains[2].origin = "button"
  /\ chains[2].alone
  /\ Pending(chains[2])
  /\ doctorSummaryLoading
  /\ doctorSummary = NullValue
  /\ doctorSummaryError = ""

-----------------------------------------------------------------------------
(* Properties of the baseline variant *)

\* Number of chat_message frames handed to transport t while it was open.
ChatSent(t) == Count(ws[t].sent, IsChat)

\* Number of chat_message frames handed to transport t while it was closing
\* or closed.
ChatDropped(t) == Count(ws[t].dropped, IsChat)

RECURSIVE SumChatSent(_)
SumChatSent(n) == IF n = 0 THEN 0 ELSE SumChatSent(n - 1) + ChatSent(n)

\* C17: in App.vue a chat_message frame is handed to an open transport only,
\* and the number of user entries in the transcript is the number of
\* chat_message frames handed to an open transport.
C17_SendOnlyWhenOpen ==
  variant = APP =>
    /\ \A t \in 1..Len(ws) : ChatDropped(t) = 0
    /\ "InvalidStateError" \notin thrown
    /\ Count(chatMessages, IsUser) = SumChatSent(Len(ws))

-----------------------------------------------------------------------------
(* Properties of the summary_ready push *)

\* The frame is a summary_ready frame.
IsReadyFrame(data) == TypeOf(data) = "summary_ready"

\* The frame carries the session's userId.
ForThisUser(data) == JSONparse(data).value.userId = userId

\* C18: in part_000 a delivered summary_ready frame with the session's userId
\* appends one info notice and starts a fetch with attempt 0; one with
\* another userId appends nothing, starts no fetch and leaves the summary
\* state unchanged.
C18_SummaryReady ==
  [][\A data \in Frames :
       (/\ variant = PART
        /\ delivered' = Append(delivered, data)
        /\ IsReadyFrame(data)) =>
          IF ForThisUser(data)
            THEN /\ chatMessages' =
                      Append(chatMessages,
                             [sender |-> "system",
                              text |-> "Doctor summary is now ready to be fetched!",
                              type |-> "info", usage |-> Undefined])
                 /\ Len(chains') = Len(chains) + 1
                 /\ chains'[Len(chains')].origin = "push"
                 /\ requests' = requests \cup {[chain |-> Len(chains'), attempt |-> 0]}
                 /\ timers' = timers
                 /\ doctorSummaryLoading'
            ELSE UNCHANGED <<chatMessages, chains, requests, timers, doctorSummary,
                             doctorSummaryLoading, doctorSummaryError>>]_vars

C18_Witness ==
  /\ variant = PART
  /\ delivered = <<F_READY_OTHER, F_READY>>
  /\ Len(chains) = 1
  /\ chains[1].origin = "push"
  /\ requests = {[chain |-> 1, attempt |-> 0]}
  /\ Len(chatMessages) = 2
  /\ chatMessages[2].text = "Doctor summary is now ready to be fetched!"
  /\ doctorSummaryLoading

\* The status has left Connected (or Connecting) through an error or close
\* event.
LeftConnected ==
  connectionStatus \in {"Error", "Disconnected (Code: 1000)",
                        "Disconnected (Code: 1006)"}

\* C19: in App.vue one transport is created, at mount, and no other ever;
\* once an error or close event has set the status, no step creates a
\* transport or sets isConnected to true.
C19_NoReconnection ==
  [][variant = APP =>
       /\ Len(ws') = IF mounted' = "init" THEN 0 ELSE 1
       /\ LeftConnected => (~isConnected' /\ ws'[1].readyState = CLOSED)]_vars

C19_Witness ==
  /\ variant = APP
  /\ connectionStatus = "Disconnected (Code: 1006)"
  /\ sends = 2
  /\ Len(ws) = 1
  /\ ws[1].readyState = CLOSED
  /\ ~isConnected
  /\ \E i \in 1..Len(chatMessages) : chatMessages[i].sender = "user"

-----------------------------------------------------------------------------
(* Termination of the summary fetcher *)

\* The summary fetcher of part_000 where every request in flight eventually
\* gets a response and every pending timer eventually fires.
NextLive ==
  \/ Mount
  \/ SocketOpens
  \/ SocketMessage(PushFrames)
  \/ FetchClick
  \/ Settle(LiveResponses)
  \/ Body
  \/ Timer

SpecLive ==
  /\ InitFetch
  /\ [][NextLive]_vars
  /\ WF_vars(Settle(LiveResponses))
  /\ WF_vars(Body)
  /\ WF_vars(Timer)

\* No fetch is running: the flag is clear, no request is in flight and no
\* timer is pending.
Quiet ==
  ~doctorSummaryLoading /\ requests = {} /\ parsing = {} /\ timers = {}

\* C20: in part_000 every fetch chain issues at most MAX_SUMMARY_RETRIES + 1
\* requests and schedules at most MAX_SUMMARY_RETRIES timers, and when every
\* request gets a response and every timer fires, a set loading flag leads to
\* a state with the flag clear, no request in flight and no timer pending.
C20_ChainsTerminate ==
  /\ [](\A c \in 1..Len(chains) :
          /\ chains[c].reqs <= MAX_SUMMARY_RETRIES + 1
          /\ chains[c].notReady <= MAX_SUMMARY_RETRIES)
  /\ (doctorSummaryLoading ~> Quiet)

C20_Witness ==
  /\ Quiet
  /\ Len(chains) = 2
  /\ chains[1].origin = "button"
  /\ chains[1].reqs = MAX_SUMMARY_RETRIES + 1
  /\ chains[1].notReady = MAX_SUMMARY_RETRIES
  /\ chains[2].origin = "push"
  /\ ~Pending(chains[1])
  /\ ~Pending(chains[2])

-----------------------------------------------------------------------------
(* Agreement of the connection state with the handle *)

\* C21: in part_000, whenever isConnected is true the handle is non-null and
\* refers to an open transport, so a sendMessage() with non-empty input in a
\* state shown as Connected transmits its frame.
C21_ConnectedHandleOpen ==
  (variant = PART /\ mounted = "mounted" /\ isConnected) =>
    (socket # 0 /\ ws[socket].readyState = OPEN)

\* C22: in part_000 isConnected is true exactly when connectionStatus is
\* "Connected".
C22_StatusAgrees ==
  variant = PART => (isConnected <=> connectionStatus = "Connected")

-----------------------------------------------------------------------------
(* Overlapping fetches of the baseline variant *)

\* The summary fetcher of App.vue: the button stays enabled while a fetch is
\* loading, so fetches overlap.
InitApp == variant = APP /\ Start

NextApp ==
  \/ Mount
  \/ SocketOpens
  \/ FetchClick
  \/ Settle(Responses)
  \/ Body

SpecApp == InitApp /\ [][NextApp]_vars

\* C23: in App.vue doctorSummaryLoading is true whenever a summary request
\* is in flight.
C23_LoadingWhileInFlight ==
  variant = APP => ((requests # {} \/ parsing # {}) => doctorSummaryLoading)

====
